---- MODULE Spec2Model ----
(***************************************************************************)
(* Merkle tree of src/merkle.go: construction (NewTree, buildWithContent,  *)
(* buildIntermediate) and proof-path extraction (GetMerklePath).           *)
(*                                                                         *)
(* Nodes live in an arena: a node pointer is an index into `nodes`, the    *)
(* nil pointer is 0.  A digest ([]byte) is a natural number; the           *)
(* concatenation of two fixed-width digests is the ordered pair of them.   *)
(* Go's nil slice and empty slice are both <<>>.  Hash fields are values:   *)
(* every digest comes from Sum(nil) and fills its backing array, so the    *)
(* append of buildIntermediate copies and changes no node's Hash.          *)
(* hash.Hash.Write never returns an error, so buildIntermediate does not   *)
(* fail.                                                                   *)
(***************************************************************************)
EXTENDS Integers, Sequences, FiniteSets, TLC

\* ---------------------------------------------------------------- bounds
\* longest content list handed to NewTree
MaxLen == 5
\* number of digest values of the colliding hash strategy
WeakMod == 3
\* deepest chain of buildIntermediate calls followed
MaxStack == 6

\* ---------------------------------------------------------------- values
\* the nil error
NoErr == "nil"
\* errors.New of buildWithContent
ErrEmpty == "error: cannot construct tree with no content"

\* Implementations of the Content interface.  id decides Equals, digest is
\* what CalculateHash returns, herr / eerr are the errors the two methods
\* raise (NoErr: none).  Equal contents have equal digests; cC has the
\* digest of cA without being equal to it.
MkContent(id, d, he, ee) == [id |-> id, digest |-> d, herr |-> he, eerr |-> ee]
cA == MkContent(1, 1, NoErr, NoErr)
cB == MkContent(2, 2, NoErr, NoErr)
cC == MkContent(3, 1, NoErr, NoErr)
cD == MkContent(4, 3, NoErr, "equals failed")
cE == MkContent(5, 0, "hash failed 5", NoErr)
cF == MkContent(6, 0, "hash failed 6", NoErr)
Content == {cA, cB, cC, cD, cE, cF}
\* the Content field of a node that is not a leaf
NilContent == MkContent(0, 0, NoErr, NoErr)

\* Content.CalculateHash: (digest, error)
CalculateHash(c) == [hash |-> c.digest, err |-> c.herr]
\* Content.Equals, called on the leaf's content c with the target: (ok, error)
Equals(c, other) == [ok |-> (c.eerr = NoErr /\ c.id = other.id), err |-> c.eerr]

\* Hash strategies.  "ideal" is collision free (Cantor pairing of the two
\* digests), "weak" has WeakMod outputs and collides.
Strategies == {"ideal", "weak"}
hashStrategy(s, l, r) ==
    IF s = "ideal" THEN ((l + r) * (l + r + 1)) \div 2 + r
    ELSE (l + 2 * r) % WeakMod

\* all lists of at most n elements of S
RECURSIVE SeqsUpTo(_, _)
SeqsUpTo(S, n) ==
    IF n = 0 THEN {<<>>}
    ELSE LET shorter == SeqsUpTo(S, n - 1)
         IN  shorter \cup {Append(s, x) : s \in {q \in shorter : Len(q) = n - 1}, x \in S}

\* ---------------------------------------------------------------- state
VARIABLES
    cs,            \* the content list given to NewTree
    strategy,      \* t.hashStrategy
    pc,            \* position of the program
    nodes,         \* the node arena
    leafs,         \* buildWithContent: leafs
    nl,            \* buildIntermediate: the level being reduced
    acc,           \* buildIntermediate: nodes, the level being produced
    i,             \* loop index of buildWithContent / buildIntermediate
    root,          \* node returned by buildIntermediate
    t,             \* the MerkleTree
    result,        \* what NewTree returned
    hashed,        \* history: positions of cs on which CalculateHash ran
    levels,        \* history: len(nl) of every buildIntermediate call
    target,        \* GetMerklePath: content
    qi,            \* GetMerklePath: position in m.Leafs
    current,       \* GetMerklePath: current
    currentParent, \* GetMerklePath: currentParent
    merklePath,    \* GetMerklePath: merklePath / first return value
    index,         \* GetMerklePath: index / second return value
    qerr,          \* GetMerklePath: returned error
    tested,        \* history: positions of m.Leafs on which Equals ran
    trail,         \* history: the current node of every step of the walk
    prev           \* root and item digests of an earlier tree

buildVars == <<nodes, leafs, nl, acc, i, root, t, result, hashed, levels>>
queryVars == <<target, qi, current, currentParent, merklePath, index, qerr, tested, trail>>
vars == <<cs, strategy, pc, nodes, leafs, nl, acc, i, root, t, result, hashed, levels,
          target, qi, current, currentParent, merklePath, index, qerr, tested, trail, prev>>

\* type Node
Node(parent, left, right, leaf, dup, hash, c) ==
    [Parent |-> parent, Left |-> left, Right |-> right,
     leaf |-> leaf, dup |-> dup, Hash |-> hash, C |-> c]

\* type MerkleTree before NewTree fills it in
EmptyTree == [Root |-> 0, merkleRoot |-> 0, Leafs |-> <<>>]
NoPrev == [set |-> FALSE, digests |-> <<>>, merkleRoot |-> 0]

\* state in which NewTree(list) is about to run with the given strategy
Start(list, s) ==
    /\ cs = list
    /\ strategy = s
    /\ pc = "NewTree"
    /\ nodes = <<>>
    /\ leafs = <<>>
    /\ nl = <<>>
    /\ acc = <<>>
    /\ i = 0
    /\ root = 0
    /\ t = EmptyTree
    /\ result = [tree |-> FALSE, err |-> NoErr]
    /\ hashed = <<>>
    /\ levels = <<>>
    /\ target = NilContent
    /\ qi = 0
    /\ current = 0
    /\ currentParent = 0
    /\ merklePath = <<>>
    /\ index = <<>>
    /\ qerr = NoErr
    /\ tested = <<>>
    /\ trail = <<>>

Init ==
    /\ \E list \in SeqsUpTo(Content, MaxLen), s \in Strategies : Start(list, s)
    /\ prev = NoPrev

\* ------------------------------------------------------- tree construction
\* NewTree calls buildWithContent, which rejects the empty list
NewTree ==
    /\ pc = "NewTree"
    /\ IF Len(cs) = 0
       THEN /\ result' = [tree |-> FALSE, err |-> ErrEmpty]
            /\ pc' = "failed"
            /\ i' = i
       ELSE /\ pc' = "leafs"
            /\ i' = 1
            /\ result' = result
    /\ UNCHANGED <<cs, strategy, nodes, leafs, nl, acc, root, t, hashed, levels, prev>>
    /\ UNCHANGED queryVars

\* variant: the error of CalculateHash is dropped
HashFailedIgnored(h) == FALSE

\* "if err != nil" after c.CalculateHash()
HashFailed(h) == h.err # NoErr

\* one iteration of the loop over cs in buildWithContent
HashLeaf ==
    /\ pc = "leafs"
    /\ i <= Len(cs)
    /\ LET c == cs[i]
           h == CalculateHash(c)
       IN  /\ hashed' = Append(hashed, i)
           /\ IF HashFailed(h)
              THEN /\ result'= [tree |-> FALSE, err |-> h.err]
                   /\ pc' = "failed"
                   /\ UNCHANGED <<nodes, leafs, i>>
              ELSE /\ nodes' = Append(nodes, Node(0, 0, 0, TRUE, FALSE, h.hash, c))
                   /\ leafs' = Append(leafs, Len(nodes) + 1)
                   /\ i' = i + 1
                   /\ UNCHANGED <<result, pc>>
    /\ UNCHANGED <<cs, strategy, nl, acc, root, t, levels, prev>>
    /\ UNCHANGED queryVars

\* variant: the padding leaf is not flagged as a duplicate
PadLeafsUnflagged(ns, ls) ==
    IF Len(ls) % 2 = 1
    THEN LET last == ns[ls[Len(ls)]]
         IN  [nodes |-> Append(ns, Node(0, 0, 0, TRUE, FALSE, last.Hash, last.C)),
              leafs |-> Append(ls, Len(ns) + 1)]
    ELSE [nodes |-> ns, leafs |-> ls]

\* variant: an odd leaf list is not padded
PadLeafsNever(ns, ls) == [nodes |-> ns, leafs |-> ls]

\* the leaf list after the odd-count padding of buildWithContent
PadLeafs(ns, ls) ==
    IF Len(ls) % 2 = 1
    THEN LET last == ns[ls[Len(ls)]]
         IN  [nodes |-> Append(ns, Node(0, 0, 0, TRUE, TRUE, last.Hash, last.C)),
              leafs |-> Append(ls, Len(ns) + 1)]
    ELSE [nodes |-> ns, leafs |-> ls]

\* end of the loop: pad, then call buildIntermediate(leafs, t)
CallBuildIntermediate ==
    /\ pc = "leafs"
    /\ i > Len(cs)
    /\ LET p == PadLeafs(nodes, leafs)
       IN  /\ nodes' = p.nodes
           /\ leafs' = p.leafs
           /\ nl' = p.leafs
           /\ levels' = Append(levels, Len(p.leafs))
    /\ acc' = <<>>
    /\ i' = 0
    /\ pc' = "inter"
    /\ UNCHANGED <<cs, strategy, root, t, result, hashed, prev>>
    /\ UNCHANGED queryVars

\* index (0-based) of the right node of the pair that starts at ix
RightOf(ix, len) == IF ix + 1 = len THEN ix ELSE ix + 1

\* variant: right hash first
PairHashSwapped(s, leftHash, rightHash) == hashStrategy(s, rightHash, leftHash)

\* digest of a parent: the strategy applied to left hash followed by right hash
PairHash(s, leftHash, rightHash) == hashStrategy(s, leftHash, rightHash)

\* variant: only the left node's Parent is set
SetParentsLeftOnly(made, left, right, n) ==
    [k \in 1..Len(made) |->
        IF k = left THEN [made[k] EXCEPT !.Parent = n] ELSE made[k]]

\* the arena after nl[left].Parent = n and nl[right].Parent = n
SetParents(made, left, right, n) ==
    [k \in 1..Len(made) |->
        IF k = left \/ k = right THEN [made[k] EXCEPT !.Parent = n] ELSE made[k]]

\* one iteration of the loop of buildIntermediate
PairStep ==
    /\ pc = "inter"
    /\ i < Len(nl)
    /\ LET left == nl[i + 1]
           right == nl[RightOf(i, Len(nl)) + 1]
           n == Len(nodes) + 1
           hash == PairHash(strategy, nodes[left].Hash, nodes[right].Hash)
           made == Append(nodes, Node(0, left, right, FALSE, FALSE, hash, NilContent))
       IN  /\ nodes' = SetParents(made, left, right, n)
           /\ acc' = Append(acc, n)
           /\ IF Len(nl) = 2
              THEN /\ root' = n
                   /\ pc' = "ret"
                   /\ i' = i
              ELSE /\ i' = i + 2
                   /\ UNCHANGED <<root, pc>>
    /\ UNCHANGED <<cs, strategy, leafs, nl, t, result, hashed, levels, prev>>
    /\ UNCHANGED queryVars

\* end of the loop: return buildIntermediate(nodes, t)
Recurse ==
    /\ pc = "inter"
    /\ i >= Len(nl)
    /\ Len(levels) < MaxStack
    /\ nl' = acc
    /\ acc' = <<>>
    /\ i' = 0
    /\ levels' = Append(levels, Len(acc))
    /\ UNCHANGED <<cs, strategy, pc, nodes, leafs, root, t, result, hashed, prev>>
    /\ UNCHANGED queryVars

\* buildWithContent returns root and leafs, NewTree fills the tree in
ReturnTree ==
    /\ pc = "ret"
    /\ t' = [Root |-> root, merkleRoot |-> nodes[root].Hash, Leafs |-> leafs]
    /\ result' = [tree |-> TRUE, err |-> NoErr]
    /\ pc' = "built"
    /\ UNCHANGED <<cs, strategy, nodes, leafs, nl, acc, i, root, hashed, levels, prev>>
    /\ UNCHANGED queryVars

\* MerkleTree.MerkleRoot
MerkleRoot == t.merkleRoot

Build == NewTree \/ HashLeaf \/ CallBuildIntermediate \/ PairStep \/ Recurse \/ ReturnTree

\* ------------------------------------------------------------ GetMerklePath
\* targets a caller asks about
Targets == {c \in Content : c.herr = NoErr}

\* m.GetMerklePath(content) is called on the tree NewTree returned
GetMerklePath ==
    /\ pc \in {"built", "returned"}
    /\ \E content \in Targets : target' = content
    /\ qi' = 1
    /\ current' = 0
    /\ currentParent' = 0
    /\ merklePath' = <<>>
    /\ index' = <<>>
    /\ qerr' = NoErr
    /\ tested' = <<>>
    /\ trail' = <<>>
    /\ pc' = "scan"
    /\ UNCHANGED <<cs, strategy, prev>>
    /\ UNCHANGED buildVars

\* variant: the error of Equals is dropped
EqualsFailedIgnored(e) == FALSE

\* "if err != nil" after current.C.Equals(content)
EqualsFailed(e) == e.err # NoErr

\* one iteration of the range loop over m.Leafs, up to the test of ok
ScanLeaf ==
    /\ pc = "scan"
    /\ qi <= Len(t.Leafs)
    /\ LET leaf == t.Leafs[qi]
           e == Equals(nodes[leaf].C, target)
       IN  /\ tested' = Append(tested, qi)
           /\ IF EqualsFailed(e)
              THEN /\ qerr'= e.err
                   /\ pc' = "returned"
                   /\ UNCHANGED <<qi, current, currentParent>>
              ELSE IF e.ok
              THEN /\ current' = leaf
                   /\ currentParent' = nodes[leaf].Parent
                   /\ pc' = "walk"
                   /\ UNCHANGED <<qi, qerr>>
              ELSE /\ qi' = qi + 1
                   /\ UNCHANGED <<pc, qerr, current, currentParent>>
    /\ UNCHANGED <<cs, strategy, target, merklePath, index, trail, prev>>
    /\ UNCHANGED buildVars

\* variant: a missing target is reported as an error
NotFoundAsError ==
    /\ pc = "scan"
    /\ qi > Len(t.Leafs)
    /\ pc' = "returned"
    /\ qerr' = "not found"
    /\ UNCHANGED <<cs, strategy, target, qi, current, currentParent, merklePath, index,
                   tested, trail, prev>>
    /\ UNCHANGED buildVars

\* the range loop ends without a match: return nil, nil, nil
NotFound ==
    /\ pc = "scan"
    /\ qi > Len(t.Leafs)
    /\ pc' = "returned"
    /\ UNCHANGED <<cs, strategy, target, qi, current, currentParent, merklePath, index,
                   qerr, tested, trail, prev>>
    /\ UNCHANGED buildVars

\* bytes.Equal(currentParent.Left.Hash, current.Hash)
LeftHashEqual(parent, cur) == nodes[nodes[parent].Left].Hash = nodes[cur].Hash
\* variant: the two markers exchanged
EmitSwapped(parent, cur) ==
    IF LeftHashEqual(parent, cur)
    THEN [hash |-> nodes[nodes[parent].Right].Hash, marker |-> 0]
    ELSE [hash |-> nodes[nodes[parent].Left].Hash, marker |-> 1]

\* the digest and the marker appended in one step of the walk
Emit(parent, cur) ==
    IF LeftHashEqual(parent, cur)
    THEN [hash |-> nodes[nodes[parent].Right].Hash, marker |-> 1]
    ELSE [hash |-> nodes[nodes[parent].Left].Hash, marker |-> 0]

\* one iteration of the loop "for currentParent != nil"
WalkStep ==
    /\ pc = "walk"
    /\ currentParent # 0
    /\ LET e == Emit(currentParent, current)
       IN  /\ merklePath' = Append(merklePath, e.hash)
           /\ index' = Append(index, e.marker)
    /\ trail' = Append(trail, current)
    /\ current' = currentParent
    /\ currentParent' = nodes[currentParent].Parent
    /\ UNCHANGED <<cs, strategy, pc, target, qi, qerr, tested, prev>>
    /\ UNCHANGED buildVars

\* currentParent is nil: return merklePath, index, nil
ReturnPath ==
    /\ pc = "walk"
    /\ currentParent = 0
    /\ pc' = "returned"
    /\ UNCHANGED <<cs, strategy, target, qi, current, currentParent, merklePath, index,
                   qerr, tested, trail, prev>>
    /\ UNCHANGED buildVars

Query == GetMerklePath \/ ScanLeaf \/ NotFound \/ WalkStep \/ ReturnPath

Next == Build \/ Query

Spec == Init /\ [][Next]_vars

\* construction and lookup run to completion: no step is ever held back
FairSpec == Spec /\ WF_vars(Build) /\ WF_vars(ScanLeaf \/ NotFound \/ WalkStep \/ ReturnPath)

\* ------------------------------------------------------------ two trees
\* contents of the lists compared with each other
CommitContent == {cA, cB}

\* the caller keeps root and item digests of a finished tree and builds another
Rebuild ==
    /\ pc = "built"
    /\ ~prev.set
    /\ prev' = [set |-> TRUE,
                digests |-> [k \in 1..Len(cs) |-> cs[k].digest],
                merkleRoot |-> MerkleRoot]
    /\ \E list \in SeqsUpTo(CommitContent, MaxLen) : cs' = list
    /\ strategy' = "ideal"
    /\ pc' = "NewTree"
    /\ nodes' = <<>>
    /\ leafs' = <<>>
    /\ nl' = <<>>
    /\ acc' = <<>>
    /\ i' = 0
    /\ root' = 0
    /\ t' = EmptyTree
    /\ result' = [tree |-> FALSE, err |-> NoErr]
    /\ hashed' = <<>>
    /\ levels' = <<>>
    /\ UNCHANGED queryVars

InitCommit ==
    /\ \E list \in SeqsUpTo(CommitContent, MaxLen) : Start(list, "ideal")
    /\ prev = NoPrev

NextCommit == Build \/ Rebuild

SpecCommit == InitCommit /\ [][NextCommit]_vars

\* ================================================================ properties
\* NewTree has returned a tree
Built == pc \in {"built", "scan", "walk", "returned"}
\* NewTree has returned
Terminated == Built \/ pc = "failed"
\* GetMerklePath has returned
Returned == pc = "returned"
\* the item digests of a content list
Digests(list) == [k \in 1..Len(list) |-> list[k].digest]
\* positions of the leaves whose Equals says true / fails for the target
EqualLeaves == {k \in 1..Len(t.Leafs) : Equals(nodes[t.Leafs[k]].C, target).ok}
FailingLeaves == {k \in 1..Len(t.Leafs) : Equals(nodes[t.Leafs[k]].C, target).err # NoErr}
\* least element of a non-empty set of numbers
Least(S) == CHOOSE x \in S : \A y \in S : x <= y
\* the target is an item of the list the tree was built from
TargetInList == \E k \in 1..Len(cs) : cs[k] = target

\* folding a proof into a digest, leaf to root
RECURSIVE Fold(_, _, _, _)
Fold(s, a, path, idx) ==
    IF path = <<>> THEN a
    ELSE Fold(s,
              IF Head(idx) = 1 THEN hashStrategy(s, a, Head(path))
                               ELSE hashStrategy(s, Head(path), a),
              Tail(path), Tail(idx))

\* C1: round-trip proof law.  Whenever GetMerklePath returns a path for an
\* item of the list the tree was built from, folding the siblings into the
\* item's digest (sibling on the right for marker 1, on the left for marker
\* 0) gives MerkleRoot().
C1_RoundTrip ==
    (Returned /\ qerr = NoErr /\ TargetInList)
        => Fold(strategy, target.digest, merklePath, index) = MerkleRoot

\* the last item of a five-item list was looked up and found at leaf five
C1_Witness ==
    /\ Returned /\ qerr = NoErr
    /\ Len(cs) = 5 /\ target = cs[5]
    /\ trail # <<>> /\ trail[1] = t.Leafs[5]
    /\ Len(merklePath) = 3

\* C3: leaf padding.  Leafs has even length >= 2; the first n leaves are the
\* items in input order, not flagged duplicate; for even n there are n
\* leaves, for odd n there are n+1 and the last is a distinct leaf flagged
\* duplicate with hash and content of its predecessor.
C3_LeafPadding ==
    Built =>
        LET n == Len(cs)
            L == t.Leafs
        IN  /\ Len(L) % 2 = 0
            /\ Len(L) >= 2
            /\ Len(L) >= n
            /\ \A k \in 1..n :
                 /\ k <= Len(L)
                 /\ nodes[L[k]].Hash = cs[k].digest
                 /\ nodes[L[k]].C = cs[k]
                 /\ nodes[L[k]].leaf
                 /\ ~nodes[L[k]].dup
            /\ n % 2 = 0 => Len(L) = n
            /\ n % 2 = 1 =>
                 /\ Len(L) = n + 1
                 /\ \A k \in 1..n : L[n + 1] # L[k]
                 /\ nodes[L[n + 1]].leaf
                 /\ nodes[L[n + 1]].dup
                 /\ nodes[L[n + 1]].Hash = nodes[L[n]].Hash
                 /\ nodes[L[n + 1]].C = nodes[L[n]].C

\* a tree built from three items
C3_Witness == Built /\ Len(cs) = 3 /\ Len(t.Leafs) = 4

\* the padded leaf digests of a list
PaddedDigests(list) ==
    IF Len(list) % 2 = 1 THEN Append(Digests(list), list[Len(list)].digest)
    ELSE Digests(list)

\* reference construction: pair (2i, 2i+1) left to right, an odd last digest
\* with itself, until one digest remains
RECURSIVE Reduce(_, _)
Reduce(s, ds) ==
    IF Len(ds) = 1 THEN ds[1]
    ELSE Reduce(s, [k \in 1..((Len(ds) + 1) \div 2) |->
                      hashStrategy(s, ds[2 * k - 1],
                                   IF 2 * k <= Len(ds) THEN ds[2 * k] ELSE ds[2 * k - 1])])

\* C4: level reduction.  Every parent's hash is the strategy applied to its
\* left child's hash followed by its right child's hash, and the root hash is
\* the reference reduction of the padded leaf digests.
C4_LevelReduction ==
    Built =>
        /\ \A n \in 1..Len(nodes) :
             ~nodes[n].leaf =>
                /\ nodes[n].Left # 0 /\ nodes[n].Right # 0
                /\ nodes[n].Hash = hashStrategy(strategy, nodes[nodes[n].Left].Hash,
                                                nodes[nodes[n].Right].Hash)
        /\ MerkleRoot = nodes[t.Root].Hash
        /\ MerkleRoot = Reduce(strategy, PaddedDigests(cs))

\* a tree over five items: six leaves, then an odd level of three nodes
C4_Witness ==
    /\ Built /\ Len(cs) = 5 /\ levels = <<6, 3, 2>>
    /\ \E n \in 1..Len(nodes) : ~nodes[n].leaf /\ nodes[n].Left = nodes[n].Right

\* positions of the items whose CalculateHash fails
FailingItems == {k \in 1..Len(cs) : cs[k].herr # NoErr}

\* C5: no partial tree on failure.  NewTree returns a tree and no error, or
\* an error and no tree; the error case is exactly the empty list or a list
\* with an item whose CalculateHash fails, and then the error is that of the
\* first failing item and no later item was hashed.
C5_NoPartialTree ==
    /\ Terminated =>
         /\ result.tree <=> result.err = NoErr
         /\ result.err # NoErr <=> (Len(cs) = 0 \/ FailingItems # {})
         /\ result.tree <=> Built
    /\ pc = "failed" =>
         /\ t = EmptyTree
         /\ Len(cs) = 0 => result.err = ErrEmpty /\ hashed = <<>>
         /\ Len(cs) > 0 =>
              LET f == Least(FailingItems)
              IN  /\ result.err = cs[f].herr
                  /\ hashed = [k \in 1..f |-> k]
    /\ Built => hashed = [k \in 1..Len(cs) |-> k]

\* NewTree failed on a list with two failing items that raise different
\* errors, the first of them not at the head of the list
C5_Witness ==
    /\ pc = "failed"
    /\ \E j, k \in 1..Len(cs) :
         /\ 1 < j /\ j < k
         /\ cs[j].herr # NoErr /\ cs[k].herr # NoErr /\ cs[j].herr # cs[k].herr
         /\ \A m \in 1..(j - 1) : cs[m].herr = NoErr

\* C6: not-found is a distinct non-error outcome.  When no leaf equals the
\* target and no Equals fails, GetMerklePath returns two empty lists and no
\* error; when it returns no error and some leaf equals the target, the
\* sibling list is non-empty; so a result without error is empty exactly when
\* the target is absent.
C6_NotFound ==
    Returned =>
        /\ (EqualLeaves = {} /\ FailingLeaves = {}) =>
              merklePath = <<>> /\ index = <<>> /\ qerr = NoErr
        /\ (qerr = NoErr /\ EqualLeaves # {}) => merklePath # <<>>
        /\ qerr = NoErr => (merklePath = <<>> <=> EqualLeaves = {})

\* a lookup in a six-leaf tree of a target no leaf equals
C6_Witness ==
    /\ Returned /\ EqualLeaves = {} /\ FailingLeaves = {}
    /\ Len(t.Leafs) = 6 /\ Len(tested) = 6

\* number of Parent links from a node to a node without parent, and that node
RECURSIVE Depth(_)
Depth(n) == IF nodes[n].Parent = 0 THEN 0 ELSE 1 + Depth(nodes[n].Parent)
RECURSIVE Top(_)
Top(n) == IF nodes[n].Parent = 0 THEN n ELSE Top(nodes[n].Parent)
\* least h with 2^h >= n
RECURSIVE CeilLog2(_)
CeilLog2(n) == IF n <= 1 THEN 0 ELSE 1 + CeilLog2((n + 1) \div 2)

\* C7: parent chains.  Root has no parent; every other node has a parent
\* one of whose children it is; the Parent chain of every leaf ends at Root
\* after ceil(log2(len(Leafs))) steps; a path returned for a found item has
\* that many siblings and markers.
C7_ParentChain ==
    /\ Built =>
         /\ nodes[t.Root].Parent = 0
         /\ \A n \in 1..Len(nodes) :
              n # t.Root =>
                 /\ nodes[n].Parent # 0
                 /\ nodes[nodes[n].Parent].Left = n \/ nodes[nodes[n].Parent].Right = n
         /\ \A k \in 1..Len(t.Leafs) :
              /\ Top(t.Leafs[k]) = t.Root
              /\ Depth(t.Leafs[k]) = CeilLog2(Len(t.Leafs))
    /\ (Returned /\ qerr = NoErr /\ EqualLeaves # {}) =>
         /\ Len(merklePath) = CeilLog2(Len(t.Leafs))
         /\ Len(index) = Len(merklePath)

\* a found item of a six-leaf tree, reached through the padding duplicate's pair
C7_Witness ==
    /\ Returned /\ qerr = NoErr /\ EqualLeaves # {}
    /\ Len(t.Leafs) = 6 /\ Len(cs) = 5 /\ Len(merklePath) = 3

\* C9: scan order.  Equals runs on the leaves in leaf order, once each, up to
\* the first leaf whose Equals fails or says true.  A failure there is
\* returned with no path; a match there gives the path of that leaf and no
\* error, whatever Equals would do on later leaves.
C9_ScanOrder ==
    /\ pc \in {"scan", "walk", "returned"} =>
         /\ tested = [k \in 1..Len(tested) |-> k]
         /\ \A k \in 1..Len(tested) :
              k < Len(tested) => k \notin EqualLeaves \cup FailingLeaves
    /\ Returned =>
         LET deciding == EqualLeaves \cup FailingLeaves
         IN  IF deciding = {}
             THEN /\ Len(tested) = Len(t.Leafs)
                  /\ qerr = NoErr /\ merklePath = <<>> /\ index = <<>>
             ELSE LET f == Least(deciding)
                  IN  /\ Len(tested) = f
                      /\ f \in FailingLeaves =>
                           /\ qerr = Equals(nodes[t.Leafs[f]].C, target).err
                           /\ merklePath = <<>> /\ index = <<>>
                      /\ f \in EqualLeaves =>
                           /\ qerr = NoErr
                           /\ trail # <<>> /\ trail[1] = t.Leafs[f]

\* the target matched the second leaf; a later leaf's Equals would have failed
C9_Witness ==
    /\ Returned /\ qerr = NoErr
    /\ Least(EqualLeaves \cup FailingLeaves \cup {99}) = 2
    /\ 2 \in EqualLeaves
    /\ \E k \in FailingLeaves : k > 2

\* nodes without parent
Parentless == {n \in 1..Len(nodes) : nodes[n].Parent = 0}

\* lengths of the levels handed to buildIntermediate so far
LevelsOK ==
    /\ \A k \in 1..Len(levels) : levels[k] >= 2
    /\ \A k \in 1..(Len(levels) - 1) :
         /\ levels[k + 1] = (levels[k] + 1) \div 2
         /\ levels[k + 1] < levels[k]
    /\ pc \in {"inter", "ret"} \/ Built =>
         /\ levels # <<>>
         /\ levels[1] = Len(leafs)
    /\ Built =>
         /\ levels[Len(levels)] = 2
         /\ Parentless = {t.Root}
         /\ Len(levels) = CeilLog2(Len(t.Leafs))

\* C10: termination of construction.  NewTree returns; buildIntermediate is
\* called on len(Leafs) nodes, then on ceil(previous/2), strictly decreasing
\* down to a level of two nodes whose parent is the one root; it is never
\* called on fewer than two nodes.
C10_Termination == []LevelsOK /\ <>Terminated

\* construction went through levels of six, three and two nodes
C10_Witness == Built /\ levels = <<6, 3, 2>> /\ Parentless = {t.Root}

\* C2: with the collision-free strategy, lists with different item digest
\* sequences have different roots.
C2_Commitment ==
    (prev.set /\ pc = "built" /\ prev.digests # Digests(cs))
        => prev.merkleRoot # MerkleRoot

\* C8: at every step of the walk the marker is 1 exactly when the current
\* node is the left child of its parent and 0 exactly when it is (only) the
\* right child, and the digest is the hash of the parent's other child.
C8_Direction ==
    pc \in {"walk", "returned"} =>
        \A k \in 1..Len(trail) :
            LET c == trail[k]
                p == nodes[c].Parent
            IN  /\ index[k] = 1 <=> nodes[p].Left = c
                /\ index[k] = 0 <=> nodes[p].Left # c /\ nodes[p].Right = c
                /\ merklePath[k] = IF nodes[p].Left = c
                                   THEN nodes[nodes[p].Right].Hash
                                   ELSE nodes[nodes[p].Left].Hash

====
